---- MODULE Spec2Model ----
(***************************************************************************)
(* Model of get_vendor_summary.py: the aggregation query issued by         *)
(* create_vendor_summary, the enrichment done by clean_vendor_summary and  *)
(* the __main__ driver that opens the connection, runs both and writes the *)
(* CSV file.                                                               *)
(***************************************************************************)
EXTENDS Integers, Sequences, FiniteSets, Bags, TLC

VARIABLES
    purchases,        \* table purchases: a bag of rows
    purchase_prices,  \* table purchase_prices: a bag of rows
    sales,            \* table sales: a bag of rows
    vendor_invoice,   \* table vendor_invoice: a bag of rows
    pc,               \* position of the running code
    conn,             \* "None", "open" or "closed"
    df,               \* the DataFrame object (vendor_sales_summary / argument df)
    df0,              \* the table as it was when clean_vendor_summary was called
    cleaned_summary,  \* what clean_vendor_summary returned, NoTable before
    log,              \* severities written to the log, in order
    csv,              \* the table written to vendor_sales_summary.csv, NoTable if none
    closes,           \* number of conn.close() calls made
    usedClosed,       \* TRUE once the connection was used after being closed
    queryFailed,      \* TRUE once pd.read_sql_query raised
    opened            \* TRUE once sqlite3.connect returned a connection

vars == <<purchases, purchase_prices, sales, vendor_invoice, pc, conn, df, df0,
          cleaned_summary, log, csv, closes, usedClosed, queryFailed, opened>>

tables == <<purchases, purchase_prices, sales, vendor_invoice>>
\* what no step after the connect changes
steady == <<tables, opened>>

(***************************************************************************)
(* Cells.  A cell is null (None / NaN), a number n/d in lowest terms, a    *)
(* string that parses as the number n ("numtext"), any other string        *)
(* ("text", n identifies it) or an infinity of sign n.                     *)
(***************************************************************************)
Null == [t |-> "null", n |-> 0, d |-> 1]
Num(i) == [t |-> "num", n |-> i, d |-> 1]
NumText(i) == [t |-> "numtext", n |-> i, d |-> 1]
Text(i) == [t |-> "text", n |-> i, d |-> 1]
Inf(s) == [t |-> "inf", n |-> s, d |-> 1]

Abs(i) == IF i < 0 THEN -i ELSE i

RECURSIVE Gcd(_, _)
Gcd(a, b) == IF b = 0 THEN a ELSE Gcd(b, a % b)

\* the number a/b (b # 0) in lowest terms with a positive denominator
Frac(a, b) ==
    LET g == Gcd(Abs(a), Abs(b))
        s == IF b < 0 THEN -1 ELSE 1
    IN  [t |-> "num", n |-> (s * a) \div g, d |-> Abs(b) \div g]

IsNull(c) == c.t = "null"
IsZero(c) == c.t = "num" /\ c.n = 0

\* pd.to_numeric(x, errors='coerce') on one cell
to_numeric(c) ==
    CASE c.t = "num" -> c
      [] c.t = "numtext" -> Num(c.n)
      [] OTHER -> Null

\* fault: fillna that fills nothing
fillna_keep(c) == c

\* fillna(0) on one cell
fillna(c) == IF IsNull(c) THEN Num(0) ELSE c

\* fault: the zero divisor is not replaced
replace0_keep(c) == c

\* Series.replace(0, np.nan) on one cell
replace0(c) == IF IsZero(c) THEN Null ELSE c

\* a - b on numeric cells; NaN propagates
Sub(a, b) ==
    IF a.t = "num" /\ b.t = "num"
    THEN Frac(a.n * b.d - b.n * a.d, a.d * b.d)
    ELSE Null

\* a / b on float cells: NaN propagates, x/0 is +-inf and 0/0 is NaN
Div(a, b) ==
    IF a.t # "num" \/ b.t # "num" THEN Null
    ELSE IF b.n = 0
         THEN IF a.n = 0 THEN Null ELSE Inf(IF a.n < 0 THEN -1 ELSE 1)
         ELSE Frac(a.n * b.d, a.d * b.n)

(***************************************************************************)
(* Tables (DataFrames): a set of column names and a sequence of rows, each *)
(* row a function from the column names to cells.                          *)
(***************************************************************************)
NoTable == [cols |-> {"<unset>"}, rows |-> <<>>]
EmptyDataFrame == [cols |-> {}, rows |-> <<>>]

\* fault: only a table without columns counts as empty
empty_cols(t) == t.cols = {}

\* DataFrame.empty: some axis has length 0
empty(t) == t.cols = {} \/ Len(t.rows) = 0

\* df[c] = v, v holding one cell per row (adds the column when absent)
SetCol(t, c, v) ==
    [cols |-> t.cols \cup {c},
     rows |-> [i \in 1..Len(t.rows) |->
                [k \in t.cols \cup {c} |-> IF k = c THEN v[i] ELSE t.rows[i][k]]]]

\* df.fillna(0, inplace=True)
FillAll(t) ==
    [cols |-> t.cols,
     rows |-> [i \in 1..Len(t.rows) |-> [k \in t.cols |-> fillna(t.rows[i][k])]]]

QueryCols == {"VendorNumber", "VendorName", "Brand", "PurchasePrice", "description",
              "Volume", "actual_price", "total_quantity", "total_dollars",
              "total_sales_quantity", "total_sales_dollars", "total_sales_price",
              "total_excise_tax", "freight_cost"}
SalesCols == {"total_sales_quantity", "total_sales_dollars", "total_sales_price",
              "total_excise_tax"}
ExpectedCols == {"Volume", "total_sales_dollars", "total_dollars",
                 "total_sales_quantity", "total_quantity"}
DerivedCols == {"gross_profit", "gross_margin", "stock_turnover", "sales_purchase_ratio"}

(***************************************************************************)
(* clean_vendor_summary.  The statements of the try block run in order on  *)
(* the same object; a KeyError leaves the statements before it done.       *)
(***************************************************************************)
\* the right-hand sides of the assignments, one cell per row of t
CoerceVolume(t) == [i \in 1..Len(t.rows) |-> to_numeric(t.rows[i]["Volume"])]
GrossProfit(t) ==
    [i \in 1..Len(t.rows) |->
        Sub(t.rows[i]["total_sales_dollars"], t.rows[i]["total_dollars"])]
GrossMargin(t) ==
    [i \in 1..Len(t.rows) |->
        Div(t.rows[i]["gross_profit"], replace0(t.rows[i]["total_sales_dollars"]))]
StockTurnover(t) ==
    [i \in 1..Len(t.rows) |->
        Div(t.rows[i]["total_sales_quantity"], replace0(t.rows[i]["total_quantity"]))]
SalesPurchaseRatio(t) ==
    [i \in 1..Len(t.rows) |->
        Div(t.rows[i]["total_sales_dollars"], replace0(t.rows[i]["total_dollars"]))]

\* the column whose lookup raises KeyError, "" when none does
MissingKey(t) ==
    CASE "Volume" \notin t.cols -> "Volume"
      [] "total_sales_dollars" \notin t.cols -> "total_sales_dollars"
      [] "total_dollars" \notin t.cols -> "total_dollars"
      [] "total_sales_quantity" \notin t.cols -> "total_sales_quantity"
      [] "total_quantity" \notin t.cols -> "total_quantity"
      [] OTHER -> ""

clean_vendor_summary(t) ==
    IF empty(t) THEN t
    ELSE IF "Volume" \notin t.cols THEN t
    ELSE LET t1 == FillAll(SetCol(t, "Volume", CoerceVolume(t)))
         IN  IF ~({"total_sales_dollars", "total_dollars"} \subseteq t1.cols) THEN t1
             ELSE LET t2 == SetCol(t1, "gross_profit", GrossProfit(t1))
                      t3 == SetCol(t2, "gross_margin", GrossMargin(t2))
                  IN  IF ~({"total_sales_quantity", "total_quantity"} \subseteq t3.cols)
                      THEN t3
                      ELSE LET t4 == SetCol(t3, "stock_turnover", StockTurnover(t3))
                           IN  SetCol(t4, "sales_purchase_ratio", SalesPurchaseRatio(t4))

\* what clean_vendor_summary logs
CleanLog(t) ==
    IF empty(t) THEN <<"warning">>
    ELSE IF MissingKey(t) # "" THEN <<"error">>
    ELSE <<>>

(***************************************************************************)
(* The SQL query of create_vendor_summary.  Tables are bags of rows; the   *)
(* integers VendorName and description identify strings.                   *)
(***************************************************************************)
RECURSIVE SumFn(_, _)
SumFn(f, S) ==
    IF S = {} THEN 0
    ELSE LET x == CHOOSE y \in S : TRUE IN f[x] + SumFn(f, S \ {x})

\* SUM(col) over the rows S of bag B, each as often as it occurs in B
SumBag(B, col, S) == SumFn([r \in S |-> CopiesIn(r, B) * r[col]], S)

\* freightsummary: one row per vendorNumber of vendor_invoice
FreightOf(v) ==
    SumBag(vendor_invoice, "Freight", {r \in BagToSet(vendor_invoice) : r.VendorNumber = v})
freightsummary ==
    {[VendorNumber |-> v, freight_cost |-> FreightOf(v)] :
        v \in {r.VendorNumber : r \in BagToSet(vendor_invoice)}}

\* sales_summary: one row per (VendorNo, Brand) of sales
SalesSum(k, col) ==
    SumBag(sales, col, {r \in BagToSet(sales) : r.VendorNo = k[1] /\ r.Brand = k[2]})
SalesKey(r) == <<r.VendorNo, r.Brand>>
sales_summary ==
    {[VendorNo |-> k[1], Brand |-> k[2],
      total_sales_quantity |-> SalesSum(k, "SalesQuantity"),
      total_sales_dollars |-> SalesSum(k, "SalesDollars"),
      total_sales_price |-> SalesSum(k, "SalesPrice"),
      total_excise_tax |-> SalesSum(k, "ExciseTax")] :
        k \in {SalesKey(r) : r \in BagToSet(sales)}}

\* purchases p JOIN purchase_prices pp ON p.Brand = pp.Brand WHERE p.PurchasePrice > 0
\* the distinct joined rows <<p, pp>>; Mult gives how many times each occurs
PurchaseOn(p, q) == p.Brand = q.Brand
\* fault: WHERE p.PurchasePrice >= 0
PurchaseWhere_Geq(p) == p.PurchasePrice >= 0
\* WHERE p.PurchasePrice > 0
PurchaseWhere(p) == p.PurchasePrice > 0
Joined ==
    {j \in BagToSet(purchases) \X BagToSet(purchase_prices) :
        PurchaseOn(j[1], j[2]) /\ PurchaseWhere(j[1])}
Mult(j) == CopiesIn(j[1], purchases) * CopiesIn(j[2], purchase_prices)

\* fault: GROUP BY p.VendorNumber, p.Brand, every group under one vendor name
GroupKey_NoName(p) == <<p.VendorNumber, 1, p.Brand>>

\* GROUP BY p.VendorNumber, p.VendorName, p.Brand
GroupKey(p) == <<p.VendorNumber, p.VendorName, p.Brand>>
Groups == {GroupKey(j[1]) : j \in Joined}
GroupRows(g) == {j \in Joined : GroupKey(j[1]) = g}
GroupSum(g, col) ==
    LET S == GroupRows(g) IN SumFn([j \in S |-> Mult(j) * j[1][col]], S)

\* the purchase_summary row of group g; the bare columns PurchasePrice,
\* description, Volume and Price come from one row j of the group
PurchaseSummaryRow(g, j) ==
    [VendorNumber |-> g[1], VendorName |-> g[2], Brand |-> g[3],
     PurchasePrice |-> j[1].PurchasePrice, description |-> j[1].description,
     Volume |-> j[2].Volume, actual_price |-> j[2].Price,
     total_quantity |-> GroupSum(g, "Quantity"),
     total_dollars |-> GroupSum(g, "Dollars")]

\* SQLite takes the bare columns of a group from an arbitrary row of it:
\* every choice of one row per group gives a possible purchase_summary
purchase_summaries ==
    {{PurchaseSummaryRow(g, pick[g]) : g \in Groups} :
        pick \in {f \in [Groups -> Joined] : \A g \in Groups : f[g] \in GroupRows(g)}}

NoMatch == [none |-> TRUE]

\* fault: the sales join matches on the vendor alone
SalesOn_VendorOnly(p, s) == p.VendorNumber = s.VendorNo
\* LEFT JOIN sales_summary s ON p.VendorNumber = s.VendorNo AND p.Brand = s.Brand
SalesOn(p, s) == p.VendorNumber = s.VendorNo /\ p.Brand = s.Brand
\* LEFT JOIN freightsummary f ON p.VendorNumber = f.VendorNumber
FreightOn(p, f) == p.VendorNumber = f.VendorNumber

\* fault: an inner join, a row without sales is dropped
LeftSales_Inner(p) == {s \in sales_summary : p.VendorNumber = s.VendorNo /\ p.Brand = s.Brand}

\* the right-hand rows a LEFT JOIN pairs with p: the matches, or one all-NULL row
LeftSales(p) ==
    LET m == {s \in sales_summary : SalesOn(p, s)} IN IF m = {} THEN {NoMatch} ELSE m
LeftFreight(p) ==
    LET m == {f \in freightsummary : FreightOn(p, f)} IN IF m = {} THEN {NoMatch} ELSE m

\* the combined rows <<p, s, f>> of the final SELECT
Combined(ps) ==
    {c \in ps \X (sales_summary \cup {NoMatch}) \X (freightsummary \cup {NoMatch}) :
        c[2] \in LeftSales(c[1]) /\ c[3] \in LeftFreight(c[1])}

OrNull(r, col) == IF r = NoMatch THEN Null ELSE Num(r[col])

\* one row of the DataFrame read by pd.read_sql_query
OutRow(c) ==
    [k \in QueryCols |->
        CASE k = "VendorNumber" -> Num(c[1].VendorNumber)
          [] k = "VendorName" -> Text(c[1].VendorName)
          [] k = "Brand" -> Num(c[1].Brand)
          [] k = "PurchasePrice" -> Num(c[1].PurchasePrice)
          [] k = "description" -> Text(c[1].description)
          [] k = "Volume" -> c[1].Volume
          [] k = "actual_price" -> Num(c[1].actual_price)
          [] k = "total_quantity" -> Num(c[1].total_quantity)
          [] k = "total_dollars" -> Num(c[1].total_dollars)
          [] k = "freight_cost" -> OrNull(c[3], "freight_cost")
          [] OTHER -> OrNull(c[2], k)]

\* ORDER BY p.VendorNumber, p.Brand
OrderKeyLeq(a, b) ==
    \/ a[1].VendorNumber < b[1].VendorNumber
    \/ a[1].VendorNumber = b[1].VendorNumber /\ a[1].Brand <= b[1].Brand

\* the orders the ORDER BY allows for the combined rows C (ties in any order)
Orderings(C) ==
    {o \in [1..Cardinality(C) -> C] :
        /\ \A i, j \in DOMAIN o : i # j => o[i] # o[j]
        /\ \A i, j \in DOMAIN o : i < j => OrderKeyLeq(o[i], o[j])}

\* every DataFrame the query can return on the current tables
QueryResults ==
    {[cols |-> QueryCols, rows |-> [i \in DOMAIN o |-> OutRow(o[i])]] :
        o \in UNION {Orderings(Combined(ps)) : ps \in purchase_summaries}}

(***************************************************************************)
(* Inputs: the contents of the four tables, drawn from small sets.         *)
(***************************************************************************)
MaxRows == 4          \* rows in the four tables together
MaxCleanRows == 1     \* rows of a table handed directly to clean_vendor_summary

Vendors == {1, 2}
Names == {1, 2}
Brands == {1, 2}

\* the bags of exactly n rows drawn from D
RECURSIVE BagsOfSize(_, _)
BagsOfSize(D, n) ==
    IF n = 0 THEN {EmptyBag}
    ELSE {b (+) SetToBag({r}) : b \in BagsOfSize(D, n - 1), r \in D}

PurchaseRows ==
    [VendorNumber : Vendors, VendorName : Names, Brand : Brands,
     PurchasePrice : {0, 10}, description : {1}, Quantity : {5}, Dollars : {50}]
\* the Volume text of a brand: brand 1 is "750", brand 2 is "Unknown"
PriceRows ==
    {[Brand |-> 1, Volume |-> NumText(750), Price |-> 12],
     [Brand |-> 2, Volume |-> Text(9), Price |-> 15]}
SalesRows ==
    [VendorNo : Vendors, Brand : Brands, SalesQuantity : {4}, SalesDollars : {48},
     SalesPrice : {12}, ExciseTax : {1}]
InvoiceRows == [VendorNumber : Vendors, Freight : {3}]

(***************************************************************************)
(* The __main__ driver, one action per step.                               *)
(***************************************************************************)
InitRun ==
    /\ pc = "start"
    /\ conn = "None"
    /\ df = NoTable
    /\ df0 = NoTable
    /\ cleaned_summary = NoTable
    /\ log = <<>>
    /\ csv = NoTable
    /\ closes = 0
    /\ usedClosed = FALSE
    /\ queryFailed = FALSE
    /\ opened = FALSE

InitTables ==
    \E np \in 0..MaxRows :
      \E nq \in 0..(MaxRows - np) :
        \E ns \in 0..(MaxRows - np - nq) :
          \E nf \in 0..(MaxRows - np - nq - ns) :
            /\ purchases \in BagsOfSize(PurchaseRows, np)
            /\ purchase_prices \in BagsOfSize(PriceRows, nq)
            /\ sales \in BagsOfSize(SalesRows, ns)
            /\ vendor_invoice \in BagsOfSize(InvoiceRows, nf)

Init == InitTables /\ InitRun

\* conn = sqlite3.connect(db_path): returns a connection or raises sqlite3.Error,
\* which the first handler logs as critical
Connect ==
    /\ pc = "start"
    /\ \E ok \in BOOLEAN :
          IF ok
          THEN conn' = "open" /\ opened' = TRUE /\ pc' = "query" /\ log' = log
          ELSE /\ conn' = conn /\ opened' = opened
               /\ pc' = "finally" /\ log' = Append(log, "critical")
    /\ UNCHANGED <<tables, df, df0, cleaned_summary, csv, closes, usedClosed, queryFailed>>

\* vendor_sales_summary = create_vendor_summary(conn): the query result, or an
\* empty DataFrame and an error entry when pd.read_sql_query raises
CreateVendorSummary ==
    /\ pc = "query"
    /\ usedClosed' = (usedClosed \/ conn # "open")
    /\ \/ /\ \E t \in QueryResults : df' = t
          /\ log' = log \o <<"info", "info">>
          /\ queryFailed' = queryFailed
       \/ /\ df' = EmptyDataFrame
          /\ log' = log \o <<"info", "error">>
          /\ queryFailed' = TRUE
    /\ pc' = "check"
    /\ UNCHANGED <<steady, conn, df0, cleaned_summary, csv, closes>>

\* fault: the emptiness test is missing
CheckEmpty_Always ==
    /\ pc = "check"
    /\ pc' = "clean"
    /\ UNCHANGED <<steady, conn, df, df0, cleaned_summary, log, csv, closes, usedClosed,
                   queryFailed>>

\* if not vendor_sales_summary.empty: ... else: logging.error("No data to process")
CheckEmpty ==
    /\ pc = "check"
    /\ IF ~empty(df)
       THEN pc' = "clean" /\ log' = log
       ELSE pc' = "finally" /\ log' = Append(log, "error")
    /\ UNCHANGED <<steady, conn, df, df0, cleaned_summary, csv, closes, usedClosed,
                   queryFailed>>

\* cleaned_summary = clean_vendor_summary(vendor_sales_summary): the argument
\* is changed in place and returned
Clean ==
    /\ pc = "clean"
    /\ df0' = df
    /\ df' = clean_vendor_summary(df)
    /\ cleaned_summary' = clean_vendor_summary(df)
    /\ log' = log \o CleanLog(df)
    /\ pc' = "write"
    /\ UNCHANGED <<steady, conn, csv, closes, usedClosed, queryFailed>>

\* cleaned_summary.to_csv(output_file, index=False), then the info entry; an
\* exception of to_csv is logged as critical by the second handler
ToCsv ==
    /\ pc = "write"
    /\ \/ csv' = cleaned_summary /\ log' = Append(log, "info")
       \/ csv' = csv /\ log' = Append(log, "critical")
    /\ pc' = "finally"
    /\ UNCHANGED <<steady, conn, df, df0, cleaned_summary, closes, usedClosed, queryFailed>>

\* fault: close() without the "if conn" test
Finally_Unguarded ==
    /\ pc = "finally"
    /\ conn' = "closed"
    /\ closes' = closes + 1
    /\ log' = Append(log, "info")
    /\ pc' = "done"
    /\ UNCHANGED <<steady, df, df0, cleaned_summary, csv, usedClosed, queryFailed>>

\* finally: if conn: conn.close(); logging.info(...)
Finally ==
    /\ pc = "finally"
    /\ IF conn # "None"
       THEN /\ conn' = "closed"
            /\ closes' = closes + 1
            /\ log' = Append(log, "info")
       ELSE UNCHANGED <<conn, closes, log>>
    /\ pc' = "done"
    /\ UNCHANGED <<steady, df, df0, cleaned_summary, csv, usedClosed, queryFailed>>

(***************************************************************************)
(* clean_vendor_summary on its own: any table of the bounded shapes below, *)
(* with all the query's columns or with one of them missing.               *)
(***************************************************************************)
VolumeCells == {Null, Num(750), NumText(750), Text(9)}
\* <<total_sales_quantity, total_sales_dollars>>
SalesCells == {<<Null, Null>>, <<Num(0), Num(0)>>, <<Num(4), Num(48)>>,
               <<Num(0), Num(48)>>, <<Num(4), Num(0)>>}
\* <<total_quantity, total_dollars>>
PurchaseCells == {<<Num(5), Num(50)>>, <<Num(0), Num(0)>>, <<Num(0), Num(50)>>,
                  <<Num(5), Num(0)>>}
FreightCells == {Null, Num(3)}

CleanRow(v, s, q, f) ==
    [k \in QueryCols |->
        CASE k = "VendorNumber" -> Num(1)
          [] k = "VendorName" -> Text(1)
          [] k = "Brand" -> Num(1)
          [] k = "PurchasePrice" -> Num(10)
          [] k = "description" -> Text(1)
          [] k = "Volume" -> v
          [] k = "actual_price" -> Num(12)
          [] k = "total_quantity" -> q[1]
          [] k = "total_dollars" -> q[2]
          [] k = "total_sales_quantity" -> s[1]
          [] k = "total_sales_dollars" -> s[2]
          [] k = "total_sales_price" -> IF IsNull(s[1]) THEN Null ELSE Num(12)
          [] k = "total_excise_tax" -> IF IsNull(s[1]) THEN Null ELSE Num(1)
          [] OTHER -> f]
CleanRows ==
    {CleanRow(v, s, q, f) :
        v \in VolumeCells, s \in SalesCells, q \in PurchaseCells, f \in FreightCells}

CleanColSets ==
    {QueryCols} \cup {QueryCols \ {c} : c \in ExpectedCols \cup {"freight_cost"}}

Restrict(r, C) == [k \in C |-> r[k]]

CleanInputs ==
    {EmptyDataFrame} \cup
    {[cols |-> C, rows |-> [i \in DOMAIN rs |-> Restrict(rs[i], C)]] :
        C \in CleanColSets,
        rs \in UNION {[1..n -> CleanRows] : n \in 0..MaxCleanRows}}

InitClean ==
    /\ purchases = EmptyBag
    /\ purchase_prices = EmptyBag
    /\ sales = EmptyBag
    /\ vendor_invoice = EmptyBag
    /\ pc = "clean"
    /\ conn = "open"
    /\ df \in CleanInputs
    /\ df0 = NoTable
    /\ cleaned_summary = NoTable
    /\ log = <<>>
    /\ csv = NoTable
    /\ closes = 0
    /\ usedClosed = FALSE
    /\ queryFailed = FALSE
    /\ opened = TRUE

NextClean == Clean

SpecClean == InitClean /\ [][NextClean]_vars

Next == Connect \/ CreateVendorSummary \/ CheckEmpty \/ Clean \/ ToCsv \/ Finally

Spec == Init /\ [][Next]_vars

(***************************************************************************)
(* Properties.                                                             *)
(***************************************************************************)
\* the state right after a successful query: df is what the query returned
QueryOk == pc = "check" /\ ~queryFailed

\* a table without rows or without columns
NoCells(t) == Len(t.rows) = 0 \/ t.cols = {}

\* the purchase rows with PurchasePrice > 0 and a purchase_prices row of their brand
Qualifying ==
    {p \in BagToSet(purchases) :
        p.PurchasePrice > 0 /\ \E q \in BagToSet(purchase_prices) : q.Brand = p.Brand}

RowsOf(t) == {t.rows[i] : i \in 1..Len(t.rows)}
\* the rows of table t for vendor number v and brand b
PairRows(t, v, b) ==
    {r \in RowsOf(t) : r["VendorNumber"] = Num(v) /\ r["Brand"] = Num(b)}
HasSales(p) ==
    \E s \in BagToSet(sales) : s.VendorNo = p.VendorNumber /\ s.Brand = p.Brand
HasFreight(p) ==
    \E f \in BagToSet(vendor_invoice) : f.VendorNumber = p.VendorNumber

\* C1 as stated: the number of rows returned by a successful query equals the
\* number of distinct (vendor number, brand) pairs among the qualifying purchases
C1_PairCount ==
    QueryOk => Len(df.rows) = Cardinality({<<p.VendorNumber, p.Brand>> : p \in Qualifying})

\* C1 amended: the number of rows returned by a successful query equals the
\* number of distinct (vendor number, vendor name, brand) triples among the
\* purchase rows with PurchasePrice > 0 and a matching purchase_prices row
C1_TripleCount ==
    QueryOk =>
        Len(df.rows) =
            Cardinality({<<p.VendorNumber, p.VendorName, p.Brand>> : p \in Qualifying})

C1_Witness ==
    /\ QueryOk
    /\ Len(df.rows) >= 2
    /\ \E p \in BagToSet(purchases) : p \notin Qualifying

\* C9: after a successful query every qualifying (vendor, brand) pair without
\* sales rows has a row in the result and all its rows have the four sales
\* aggregates null; a qualifying pair whose vendor has no vendor_invoice row has
\* a row and all its rows have a null freight_cost
C9_LeftJoinNulls ==
    QueryOk =>
        \A p \in Qualifying :
            LET rs == PairRows(df, p.VendorNumber, p.Brand)
            IN  /\ rs # {}
                /\ ~HasSales(p) => \A r \in rs : \A k \in SalesCols : IsNull(r[k])
                /\ ~HasFreight(p) => \A r \in rs : IsNull(r["freight_cost"])

C9_Witness ==
    /\ QueryOk
    /\ \E p \in Qualifying : ~HasSales(p) /\ ~HasFreight(p)
    /\ \E r \in RowsOf(df) : ~IsNull(r["total_sales_dollars"])

\* the number of purchase_prices rows of brand b
PriceCopies(b) ==
    LET S == {q \in BagToSet(purchase_prices) : q.Brand = b}
    IN  SumFn([q \in S |-> CopiesIn(q, purchase_prices)], S)

\* the sum of col over the purchase rows S, each row once
PurchaseTotal(col, S) == SumFn([p \in S |-> CopiesIn(p, purchases) * p[col]], S)

\* the purchase rows with PurchasePrice > 0 of the (vendor, brand) of row r
PairPurchases(r) ==
    {p \in BagToSet(purchases) :
        /\ p.PurchasePrice > 0
        /\ Num(p.VendorNumber) = r["VendorNumber"] /\ Num(p.Brand) = r["Brand"]}
\* those that also bear the vendor name of row r
TriplePurchases(r) == {p \in PairPurchases(r) : Text(p.VendorName) = r["VendorName"]}

\* C10 as stated: in every row of a successful query, total_quantity and
\* total_dollars are the sums of Quantity and Dollars over the purchase rows of
\* the row's (vendor, brand) with PurchasePrice > 0, each counted exactly once
C10_PairSums ==
    QueryOk =>
        \A r \in RowsOf(df) :
            /\ r["total_quantity"] = Num(PurchaseTotal("Quantity", PairPurchases(r)))
            /\ r["total_dollars"] = Num(PurchaseTotal("Dollars", PairPurchases(r)))

\* C10 amended: in every row of a successful query, total_quantity and
\* total_dollars are the sums of Quantity and Dollars over the purchase rows of
\* the row's (vendor number, vendor name, brand) with PurchasePrice > 0, each
\* counted once per purchase_prices row of its brand; the joins to the sales
\* and freight summaries leave them so
C10_TripleSums ==
    QueryOk =>
        \A r \in RowsOf(df) :
            LET c == PriceCopies(r["Brand"].n)
            IN  /\ r["total_quantity"] = Num(c * PurchaseTotal("Quantity", TriplePurchases(r)))
                /\ r["total_dollars"] = Num(c * PurchaseTotal("Dollars", TriplePurchases(r)))

C10_Witness ==
    /\ QueryOk
    /\ \E r \in RowsOf(df) :
          /\ r["total_quantity"] = Num(10)
          /\ \E p \in BagToSet(purchases) :
                /\ p.PurchasePrice <= 0
                /\ Num(p.VendorNumber) = r["VendorNumber"]
                /\ Text(p.VendorName) = r["VendorName"]
                /\ Num(p.Brand) = r["Brand"]

\* the driver has called clean_vendor_summary and it has returned
Cleaned == pc \in {"write", "finally", "done"} /\ cleaned_summary # NoTable

Neg(c) == Sub(Num(0), c)

\* C3 as stated: after create_vendor_summary and clean_vendor_summary, every
\* qualifying (vendor, brand) pair without sales rows has a row, and its rows
\* have total_sales_dollars = 0, total_sales_quantity = 0, gross_profit =
\* -total_dollars and null gross_margin, stock_turnover and sales_purchase_ratio
C3_AllNull ==
    Cleaned =>
        \A p \in Qualifying :
            ~HasSales(p) =>
                LET rs == PairRows(cleaned_summary, p.VendorNumber, p.Brand)
                IN  /\ rs # {}
                    /\ \A r \in rs :
                          /\ r["total_sales_dollars"] = Num(0)
                          /\ r["total_sales_quantity"] = Num(0)
                          /\ r["gross_profit"] = Neg(r["total_dollars"])
                          /\ IsNull(r["gross_margin"])
                          /\ IsNull(r["stock_turnover"])
                          /\ IsNull(r["sales_purchase_ratio"])

\* C3 amended: after create_vendor_summary and clean_vendor_summary, every
\* qualifying (vendor, brand) pair without sales rows has a row, and its rows
\* have total_sales_dollars = 0, total_sales_quantity = 0, gross_profit =
\* -total_dollars, a null gross_margin, stock_turnover = 0 (null when
\* total_quantity is 0) and sales_purchase_ratio = 0 (null when total_dollars is 0)
C3_NoSales ==
    Cleaned =>
        \A p \in Qualifying :
            ~HasSales(p) =>
                LET rs == PairRows(cleaned_summary, p.VendorNumber, p.Brand)
                IN  /\ rs # {}
                    /\ \A r \in rs :
                          /\ r["total_sales_dollars"] = Num(0)
                          /\ r["total_sales_quantity"] = Num(0)
                          /\ r["gross_profit"] = Neg(r["total_dollars"])
                          /\ IsNull(r["gross_margin"])
                          /\ r["stock_turnover"] =
                                IF IsZero(r["total_quantity"]) THEN Null ELSE Num(0)
                          /\ r["sales_purchase_ratio"] =
                                IF IsZero(r["total_dollars"]) THEN Null ELSE Num(0)

C3_Witness ==
    /\ Cleaned
    /\ \E p \in Qualifying : ~HasSales(p)
    /\ \E r \in RowsOf(cleaned_summary) : r["total_sales_dollars"] # Num(0)

InLog(sev) == \E i \in 1..Len(log) : log[i] = sev

\* C5: once the query has failed, create_vendor_summary has returned an empty
\* table and logged an error, no exception reached the driver's handlers (no
\* critical entry), clean_vendor_summary is never called and no file is written
C5_QueryFailure ==
    queryFailed =>
        /\ df = EmptyDataFrame
        /\ pc \in {"check", "finally", "done"}
        /\ df0 = NoTable /\ cleaned_summary = NoTable
        /\ csv = NoTable
        /\ InLog("error") /\ ~InLog("critical")
        /\ pc \in {"finally", "done"} => log[Len(log) - (closes)] = "error"

C5_Witness == queryFailed /\ pc = "done" /\ closes = 1

\* C6: the connection is never used after it was closed and is closed only at
\* the end of the run; every position before the end has a next step; at the
\* end an opened connection has been closed exactly once, and when the
\* connection could not be opened no close was made and no file written
C6_CloseOnce ==
    /\ ~usedClosed
    /\ closes > 0 => pc = "done"
    /\ conn = "open" => opened /\ pc \notin {"start", "done"}
    /\ pc \in {"start", "query", "check", "clean", "write", "finally", "done"}
    /\ pc = "done" /\ opened => closes = 1 /\ conn = "closed"
    /\ pc = "done" /\ ~opened =>
          closes = 0 /\ conn = "None" /\ csv = NoTable /\ log = <<"critical">>

C6_Witness == pc = "done" /\ closes = 1 /\ InLog("critical") /\ cleaned_summary # NoTable

(***************************************************************************)
(* Properties of clean_vendor_summary on its own (SpecClean).              *)
(***************************************************************************)
\* clean_vendor_summary has returned
Returned == pc = "write"
\* it was given a non-empty table with every column it reads
Normal == Returned /\ ~NoCells(df0) /\ ExpectedCols \subseteq df0.cols

NoInf(t) == \A r \in RowsOf(t) : \A k \in t.cols : r[k].t # "inf"

\* C2 as stated: in every row of the result, total_sales_dollars = 0 makes
\* gross_margin and sales_purchase_ratio null and total_quantity = 0 makes
\* stock_turnover null; no error is logged and no cell is infinite
C2_SalesZero ==
    Normal =>
        /\ log = <<>> /\ DerivedCols \subseteq cleaned_summary.cols
        /\ NoInf(cleaned_summary)
        /\ \A r \in RowsOf(cleaned_summary) :
              /\ IsZero(r["total_sales_dollars"]) =>
                    IsNull(r["gross_margin"]) /\ IsNull(r["sales_purchase_ratio"])
              /\ IsZero(r["total_quantity"]) => IsNull(r["stock_turnover"])

\* C2 amended: in every row of the result, total_sales_dollars = 0 makes
\* gross_margin null, total_dollars = 0 makes sales_purchase_ratio null and
\* total_quantity = 0 makes stock_turnover null; no error is logged and no cell
\* is infinite
C2_ZeroDivisor ==
    Normal =>
        /\ log = <<>> /\ DerivedCols \subseteq cleaned_summary.cols
        /\ NoInf(cleaned_summary)
        /\ \A r \in RowsOf(cleaned_summary) :
              /\ IsZero(r["total_sales_dollars"]) => IsNull(r["gross_margin"])
              /\ IsZero(r["total_dollars"]) => IsNull(r["sales_purchase_ratio"])
              /\ IsZero(r["total_quantity"]) => IsNull(r["stock_turnover"])

C2_Witness ==
    /\ Normal
    /\ \E r \in RowsOf(cleaned_summary) :
          /\ IsNull(df0.rows[1]["total_sales_dollars"])
          /\ IsZero(r["total_sales_dollars"]) /\ IsZero(r["total_quantity"])
          /\ ~IsZero(r["total_dollars"])
          /\ IsNull(r["gross_margin"]) /\ IsNull(r["stock_turnover"])
          /\ r["sales_purchase_ratio"] = Num(0)

\* C4: given a non-empty table lacking one of the expected columns,
\* clean_vendor_summary returns the table as it was given: same columns, same
\* cells, no derived column, and only the error entry logged
C4_AsIs ==
    (Returned /\ ~NoCells(df0) /\ Cardinality(ExpectedCols \ df0.cols) = 1) =>
        /\ cleaned_summary = df0
        /\ cleaned_summary.cols \cap DerivedCols = {}
        /\ log = <<"error">>

\* C7: after clean_vendor_summary completes normally, a cell is null only if
\* it is gross_margin, stock_turnover or sales_purchase_ratio in a row whose
\* divisor (total_sales_dollars, total_quantity, total_dollars) is 0
C7_FillLaw ==
    Normal =>
        /\ cleaned_summary.cols = df0.cols \cup DerivedCols
        /\ \A r \in RowsOf(cleaned_summary) : \A k \in cleaned_summary.cols :
              IsNull(r[k]) =>
                \/ k = "gross_margin" /\ IsZero(r["total_sales_dollars"])
                \/ k = "stock_turnover" /\ IsZero(r["total_quantity"])
                \/ k = "sales_purchase_ratio" /\ IsZero(r["total_dollars"])

C7_Witness ==
    /\ Normal
    /\ df0.cols = QueryCols
    /\ df0.rows[1]["Volume"].t = "text"
    /\ IsNull(df0.rows[1]["freight_cost"])
    /\ IsNull(df0.rows[1]["total_sales_quantity"])
    /\ cleaned_summary.rows[1]["Volume"] = Num(0)
    /\ IsNull(cleaned_summary.rows[1]["gross_margin"])
    /\ ~IsNull(cleaned_summary.rows[1]["sales_purchase_ratio"])

\* C8: given an empty table, clean_vendor_summary returns it unchanged, still
\* empty, with no derived column, and logs only the warning
C8_EmptyInput ==
    (Returned /\ NoCells(df0)) =>
        /\ cleaned_summary = df0 /\ df = df0
        /\ NoCells(cleaned_summary)
        /\ cleaned_summary.cols \cap DerivedCols = {}
        /\ log = <<"warning">>

C8_Witness == Returned /\ NoCells(df0) /\ df0.cols = QueryCols /\ cleaned_summary = df0

====
